---- MODULE Spec2Model ----
(***************************************************************************)
(* PackagesAPI (packages/apis/src/generated/PackagesAPI.ts): eight methods *)
(* that each build one call of APIBase.request and return its promise.     *)
(*                                                                         *)
(* A URL is a sequence of tokens, the pieces the template literals         *)
(* concatenate: the fixed text, the interpolated stack_id, and the tokens  *)
(* queryString appends ("?", key, "=", value, "&", ...).                   *)
(* An absent optional field of a request is a field that is not in the     *)
(* record's DOMAIN; an omitted trailing argument of base.request is a      *)
(* field that is not in the call's DOMAIN.                                 *)
(***************************************************************************)
EXTENDS Integers, Sequences, FiniteSets

VARIABLES invocations, transport

vars == <<invocations, transport>>

(* Number of method invocations a behaviour makes. *)
MaxCalls == 2

----------------------------------------------------------------------------
(* Input values.  Ids are ids as the server issues them; names are free    *)
(* text, one of them with a character that URL encoding changes.           *)

OrgIds == {"o1"}

StackIds == {"abc", "s1"}

PkgBodies == {[kind |-> "pkg"]}

Undefined == <<>>

RequestOptionsSet == {Undefined}

(* All records over a subset of the fields of r. *)
Restrict(r, keys) == [k \in keys |-> r[k]]

Partial(r) == {Restrict(r, keys) : keys \in SUBSET DOMAIN r}

CreatePkgRequests == {[body |-> b] : b \in PkgBodies}

ApplyPkgRequests == {[body |-> b] : b \in PkgBodies}

ListStacksRequests ==
    {r \in Partial([orgID |-> "o1", name |-> "n 1", stackID |-> "s1"]) :
        "orgID" \in DOMAIN r}

CreateStackRequests ==
    {[body |-> b] :
        b \in Partial([orgID |-> "o1", name |-> "n1", description |-> "d1"])
              \cup {[orgID |-> "o1", name |-> "n1",
                      description |-> "d1", urls |-> <<"u1">>]}}

ReadStackRequests == {[stack_id |-> s] : s \in StackIds}

UpdateStackRequests ==
    {[stack_id |-> s, body |-> b] :
        s \in StackIds, b \in {[name |-> "n2"]}}

DeleteStackRequests == {[stack_id |-> s, orgID |-> o] : s \in StackIds, o \in OrgIds}

ExportStackRequests == {[stack_id |-> s, orgID |-> o] : s \in StackIds, o \in OrgIds}

----------------------------------------------------------------------------
(* APIBase: the transport the methods delegate to.                         *)

(* encodeURIComponent on the values in use, and its inverse. *)
Encode(s) == IF s = "n 1" THEN "n%201" ELSE s

Decode(s) == IF s = "n%201" THEN "n 1" ELSE s

(* APIBase.queryString(request, params): the named fields that are present, *)
(* in the order named, encoded, "?" before the first and "&" between.       *)
RECURSIVE queryStringFrom(_, _, _)
queryStringFrom(request, params, acc) ==
    IF params = <<>> THEN acc
    ELSE LET key == Head(params)
             next == IF key \in DOMAIN request
                     THEN acc \o <<(IF acc = <<>> THEN "?" ELSE "&"),
                                   Encode(key), "=", Encode(request[key])>>
                     ELSE acc
         IN  queryStringFrom(request, Tail(params), next)

queryString(request, params) == queryStringFrom(request, params, <<>>)

(* The body APIBase.request sends: request.body when there is one. *)
BodySent(call) ==
    IF "body" \in DOMAIN call.request THEN <<call.request.body>> ELSE <<>>

(* A promise: pending, or settled with a value or an error. *)
Pending == [state |-> "pending", value |-> "none"]

Fulfilled(v) == [state |-> "fulfilled", value |-> v]

Rejected(e) == [state |-> "rejected", value |-> e]

Values == {"v1"}

Errors == {"status404"}

----------------------------------------------------------------------------
(* PackagesAPI: the call each method hands to this.base.request.           *)

createPkg(request, requestOptions) ==
    [method |-> "POST",
     path |-> <<"/api/v2/packages">>,
     request |-> request,
     requestOptions |-> requestOptions,
     contentType |-> "application/json"]

applyPkg_createPath(request, requestOptions) ==
    [method |-> "POST",
     path |-> <<"/api/v2/packages">>,
     request |-> request,
     requestOptions |-> requestOptions,
     contentType |-> "application/json"]

applyPkg(request, requestOptions) ==
    [method |-> "POST",
     path |-> <<"/api/v2/packages/apply">>,
     request |-> request,
     requestOptions |-> requestOptions,
     contentType |-> "application/json"]

listStacks_swapped(request, requestOptions) ==
    [method |-> "GET",
     path |-> <<"/api/v2/packages/stacks">>
              \o queryString(request, <<"orgID", "stackID", "name">>),
     request |-> request,
     requestOptions |-> requestOptions]

listStacks(request, requestOptions) ==
    [method |-> "GET",
     path |-> <<"/api/v2/packages/stacks">>
              \o queryString(request, <<"orgID", "name", "stackID">>),
     request |-> request,
     requestOptions |-> requestOptions]

createStack_defaults(request, requestOptions) ==
    [method |-> "POST",
     path |-> <<"/api/v2/packages/stacks">>,
     request |-> [body |-> [k \in DOMAIN request.body \cup {"description"} |->
                     IF k \in DOMAIN request.body THEN request.body[k] ELSE ""]],
     requestOptions |-> requestOptions,
     contentType |-> "application/json"]

createStack(request, requestOptions) ==
    [method |-> "POST",
     path |-> <<"/api/v2/packages/stacks">>,
     request |-> request,
     requestOptions |-> requestOptions,
     contentType |-> "application/json"]

readStack_leak(request, requestOptions) ==
    [method |-> "GET",
     path |-> <<"/api/v2/packages/stacks/", request.stack_id>>
              \o queryString(request, <<"stack_id">>),
     request |-> request,
     requestOptions |-> requestOptions]

readStack(request, requestOptions) ==
    [method |-> "GET",
     path |-> <<"/api/v2/packages/stacks/", request.stack_id>>,
     request |-> request,
     requestOptions |-> requestOptions]

updateStack_noType(request, requestOptions) ==
    [method |-> "PATCH",
     path |-> <<"/api/v2/packages/stacks/", request.stack_id>>,
     request |-> request,
     requestOptions |-> requestOptions]

updateStack(request, requestOptions) ==
    [method |-> "PATCH",
     path |-> <<"/api/v2/packages/stacks/", request.stack_id>>,
     request |-> request,
     requestOptions |-> requestOptions,
     contentType |-> "application/json"]

deleteStack_noQuery(request, requestOptions) ==
    [method |-> "DELETE",
     path |-> <<"/api/v2/packages/stacks/", request.stack_id>>,
     request |-> request,
     requestOptions |-> requestOptions]

deleteStack(request, requestOptions) ==
    [method |-> "DELETE",
     path |-> <<"/api/v2/packages/stacks/", request.stack_id>>
              \o queryString(request, <<"orgID">>),
     request |-> request,
     requestOptions |-> requestOptions]

exportStack_get(request, requestOptions) ==
    [method |-> "GET",
     path |-> <<"/api/v2/packages/stacks/", request.stack_id, "/export">>
              \o queryString(request, <<"orgID">>),
     request |-> request,
     requestOptions |-> requestOptions]

exportStack(request, requestOptions) ==
    [method |-> "DELETE",
     path |-> <<"/api/v2/packages/stacks/", request.stack_id, "/export">>
              \o queryString(request, <<"orgID">>),
     request |-> request,
     requestOptions |-> requestOptions]

baseRequest_twice(call) == <<call, call>>

(* The calls of this.base.request one method invocation makes: one. *)
baseRequest(call) == <<call>>

returnResult_swallow(outcome) ==
    IF outcome.state = "rejected" THEN [state |-> "fulfilled", value |-> "none"]
    ELSE outcome

(* What a method returns for the promise base.request gave it: that promise. *)
returnResult(outcome) == outcome

methodReady_serial ==
    /\ Len(invocations) < MaxCalls
    /\ \A k \in 1..Len(transport) : transport[k].promise.state # "pending"

(* A method starts its call when invoked, whatever else is in flight. *)
methodReady == Len(invocations) < MaxCalls

----------------------------------------------------------------------------
(* State: the invocations made, each with the result its caller holds, and *)
(* the calls the transport received, each with the promise it returned.    *)

Init ==
    /\ invocations = <<>>
    /\ transport = <<>>

Invoke(op, request, requestOptions, call) ==
    LET id == Len(invocations) + 1
        calls == baseRequest(call)
    IN  /\ methodReady
        /\ invocations' = Append(invocations,
               [op |-> op, request |-> request,
                requestOptions |-> requestOptions, result |-> Pending])
        /\ transport' = transport \o
               [k \in 1..Len(calls) |->
                   [call |-> calls[k], from |-> id, promise |-> Pending]]

CallCreatePkg ==
    \E request \in CreatePkgRequests, requestOptions \in RequestOptionsSet :
        Invoke("createPkg", request, requestOptions, createPkg(request, requestOptions))

CallApplyPkg ==
    \E request \in ApplyPkgRequests, requestOptions \in RequestOptionsSet :
        Invoke("applyPkg", request, requestOptions, applyPkg(request, requestOptions))

CallListStacks ==
    \E request \in ListStacksRequests, requestOptions \in RequestOptionsSet :
        Invoke("listStacks", request, requestOptions, listStacks(request, requestOptions))

CallCreateStack ==
    \E request \in CreateStackRequests, requestOptions \in RequestOptionsSet :
        Invoke("createStack", request, requestOptions, createStack(request, requestOptions))

CallReadStack ==
    \E request \in ReadStackRequests, requestOptions \in RequestOptionsSet :
        Invoke("readStack", request, requestOptions, readStack(request, requestOptions))

CallUpdateStack ==
    \E request \in UpdateStackRequests, requestOptions \in RequestOptionsSet :
        Invoke("updateStack", request, requestOptions, updateStack(request, requestOptions))

CallDeleteStack ==
    \E request \in DeleteStackRequests, requestOptions \in RequestOptionsSet :
        Invoke("deleteStack", request, requestOptions, deleteStack(request, requestOptions))

CallExportStack ==
    \E request \in ExportStackRequests, requestOptions \in RequestOptionsSet :
        Invoke("exportStack", request, requestOptions, exportStack(request, requestOptions))

(* The transport settles the promise of call k; the promise is the one the *)
(* method returned, so the caller's result settles with it.                *)
Settle(k, outcome) ==
    LET id == transport[k].from
    IN  /\ transport[k].promise = Pending
        /\ transport' = [transport EXCEPT ![k].promise = outcome]
        /\ invocations' =
               IF invocations[id].result = Pending
               THEN [invocations EXCEPT ![id].result = returnResult(outcome)]
               ELSE invocations

TransportResolve ==
    \E k \in 1..Len(transport), v \in Values : Settle(k, Fulfilled(v))

TransportReject ==
    \E k \in 1..Len(transport), e \in Errors : Settle(k, Rejected(e))

Next ==
    \/ CallCreatePkg
    \/ CallApplyPkg
    \/ CallListStacks
    \/ CallCreateStack
    \/ CallReadStack
    \/ CallUpdateStack
    \/ CallDeleteStack
    \/ CallExportStack
    \/ TransportResolve
    \/ TransportReject

Spec == Init /\ [][Next]_vars

----------------------------------------------------------------------------
(* Reading a URL back: the part before "?", and the parameters after it.   *)

QueryStart(url) ==
    IF \E i \in 1..Len(url) : url[i] = "?"
    THEN CHOOSE i \in 1..Len(url) : url[i] = "?" /\ \A j \in 1..(i - 1) : url[j] # "?"
    ELSE 0

PathOf(url) ==
    IF QueryStart(url) = 0 THEN url ELSE SubSeq(url, 1, QueryStart(url) - 1)

QueryOf(url) ==
    IF QueryStart(url) = 0 THEN <<>> ELSE SubSeq(url, QueryStart(url) + 1, Len(url))

(* key "=" value, then "&" key "=" value any number of times *)
WellFormedQuery(q) ==
    /\ Len(q) % 4 = 3
    /\ \A i \in 1..Len(q) : /\ (i % 4 = 2 => q[i] = "=")
                            /\ (i % 4 = 0 => q[i] = "&")
                            /\ (i % 4 \in {1, 3} => q[i] \notin {"=", "&", "?"})

RECURSIVE Params(_)
Params(q) ==
    IF Len(q) < 3 THEN <<>>
    ELSE <<[key |-> Decode(q[1]), value |-> Decode(q[3])]>>
         \o Params(SubSeq(q, 5, Len(q)))

(* The fields among keys that request has, in the order of keys, with its values. *)
PresentFields(request, keys) ==
    LET present == SelectSeq(keys, LAMBDA k : k \in DOMAIN request)
    IN  [i \in 1..Len(present) |-> [key |-> present[i], value |-> request[present[i]]]]

Calls == 1..Len(transport)

Caller(k) == invocations[transport[k].from]

CallsOfOp(op) == {k \in Calls : Caller(k).op = op}

----------------------------------------------------------------------------
(* The contract table. *)

ContractVerb(op) ==
    CASE op = "createPkg" -> "POST"
      [] op = "applyPkg" -> "POST"
      [] op = "listStacks" -> "GET"
      [] op = "createStack" -> "POST"
      [] op = "readStack" -> "GET"
      [] op = "updateStack" -> "PATCH"
      [] op = "deleteStack" -> "DELETE"

ContractPath(op, request) ==
    CASE op = "createPkg" -> <<"/api/v2/packages">>
      [] op = "applyPkg" -> <<"/api/v2/packages/apply">>
      [] op = "listStacks" -> <<"/api/v2/packages/stacks">>
      [] op = "createStack" -> <<"/api/v2/packages/stacks">>
      [] op \in {"readStack", "updateStack", "deleteStack"} ->
            <<"/api/v2/packages/stacks/", request.stack_id>>

TableOps ==
    {"createPkg", "applyPkg", "listStacks", "createStack",
     "readStack", "updateStack", "deleteStack"}

(* C1: every transport call made by one of the seven methods of the table  *)
(* carries the table's verb and, before any query string, the table's path *)
(* with {stack_id} replaced by the request's stack_id.                     *)
C1_VerbAndPath ==
    \A k \in Calls :
        Caller(k).op \in TableOps =>
            /\ transport[k].call.method = ContractVerb(Caller(k).op)
            /\ PathOf(transport[k].call.path)
                   = ContractPath(Caller(k).op, Caller(k).request)

C1_Witness ==
    /\ Len(transport) = 2
    /\ Caller(1).op = "applyPkg"
    /\ Caller(2).op = "updateStack"
    /\ Caller(2).request.stack_id = "s1"
    /\ transport[2].call.path = <<"/api/v2/packages/stacks/", "s1">>

(* C2: every exportStack call uses DELETE on                               *)
(* /api/v2/packages/stacks/{stack_id}/export followed by the query string  *)
(* of orgID alone, and is the deleteStack call of the same request with    *)
(* "/export" put after the stack id.                                       *)
C2_ExportIsDelete ==
    \A k \in CallsOfOp("exportStack") :
        LET c == transport[k].call
            r == Caller(k).request
            d == deleteStack(r, Caller(k).requestOptions)
        IN  /\ c.method = "DELETE"
            /\ c.method # "GET"
            /\ PathOf(c.path) = <<"/api/v2/packages/stacks/", r.stack_id, "/export">>
            /\ WellFormedQuery(QueryOf(c.path))
            /\ Params(QueryOf(c.path)) = <<[key |-> "orgID", value |-> r.orgID]>>
            /\ c = [d EXCEPT !.path = SubSeq(d.path, 1, 2) \o <<"/export">>
                                      \o SubSeq(d.path, 3, Len(d.path))]

C2_Witness ==
    \E k \in CallsOfOp("exportStack") :
        /\ Caller(k).request = [stack_id |-> "abc", orgID |-> "o1"]
        /\ transport[k].call.method = "DELETE"

(* C3: the query string of a listStacks call holds exactly the fields among *)
(* orgID, name, stackID that the request has, each with the request's       *)
(* value, in that order; an absent field does not appear.                   *)
C3_ListStacksQuery ==
    \A k \in CallsOfOp("listStacks") :
        LET c == transport[k].call
            r == Caller(k).request
        IN  /\ PathOf(c.path) = <<"/api/v2/packages/stacks">>
            /\ WellFormedQuery(QueryOf(c.path))
            /\ Params(QueryOf(c.path))
                   = PresentFields(r, <<"orgID", "name", "stackID">>)
            /\ \A f \in {"name", "stackID"} :
                   f \notin DOMAIN r =>
                       \A i \in 1..Len(c.path) : c.path[i] # f

C3_Witness ==
    /\ Len(transport) = 2
    /\ Caller(1).op = "listStacks"
    /\ Caller(1).request = [orgID |-> "o1"]
    /\ Params(QueryOf(transport[1].call.path)) = <<[key |-> "orgID", value |-> "o1"]>>
    /\ Caller(2).op = "listStacks"
    /\ DOMAIN Caller(2).request = {"orgID", "name", "stackID"}
    /\ Len(Params(QueryOf(transport[2].call.path))) = 3

(* C4: a deleteStack call targets /api/v2/packages/stacks/{stack_id} with  *)
(* the query orgID={orgID}; the request handed over has no body field, no  *)
(* body is sent and no content type is given.                              *)
C4_DeleteStack ==
    \A k \in CallsOfOp("deleteStack") :
        LET c == transport[k].call
            r == Caller(k).request
        IN  /\ PathOf(c.path) = <<"/api/v2/packages/stacks/", r.stack_id>>
            /\ WellFormedQuery(QueryOf(c.path))
            /\ Params(QueryOf(c.path)) = <<[key |-> "orgID", value |-> r.orgID]>>
            /\ "body" \notin DOMAIN c.request
            /\ BodySent(c) = <<>>
            /\ "contentType" \notin DOMAIN c

C4_Witness ==
    \E k \in CallsOfOp("deleteStack") :
        /\ Caller(k).request = [stack_id |-> "abc", orgID |-> "o1"]
        /\ transport[k].call.path
               = <<"/api/v2/packages/stacks/", "abc", "?", "orgID", "=", "o1">>

(* C5: the body a createStack call sends is the caller's request.body:     *)
(* the same fields with the same values, none added and none removed.      *)
C5_CreateStackBody ==
    \A k \in CallsOfOp("createStack") :
        LET sent == BodySent(transport[k].call)
            given == Caller(k).request.body
        IN  /\ Len(sent) = 1
            /\ DOMAIN sent[1] = DOMAIN given
            /\ DOMAIN sent[1] \subseteq {"orgID", "name", "description", "urls"}
            /\ \A f \in DOMAIN given : sent[1][f] = given[f]

C5_Witness ==
    \E k \in CallsOfOp("createStack") :
        /\ Caller(k).request = [body |-> [orgID |-> "o1", name |-> "n1"]]
        /\ BodySent(transport[k].call) = <<[orgID |-> "o1", name |-> "n1"]>>

(* C6: the result the caller holds is in the state of the promise of its   *)
(* transport call: pending while it is pending, fulfilled with the same    *)
(* value, or rejected with the same error.                                 *)
C6_ResultIsTransportOutcome ==
    \A k \in Calls : Caller(k).result = transport[k].promise

C6_Witness ==
    /\ Len(transport) = 2
    /\ transport[1].promise = Rejected("status404")
    /\ invocations[1].result = Rejected("status404")
    /\ transport[2].promise = Fulfilled("v1")
    /\ invocations[2].result = Fulfilled("v1")

(* C7: there are as many transport calls as invocations, one per           *)
(* invocation, also when calls were rejected.                              *)
C7_OneCallPerInvocation ==
    /\ Len(transport) = Len(invocations)
    /\ \A i \in 1..Len(invocations) :
           Cardinality({k \in Calls : transport[k].from = i}) = 1

C7_Witness ==
    /\ Len(invocations) = 2
    /\ Len(transport) = 2
    /\ invocations[1].result.state = "rejected"
    /\ invocations[2].op = invocations[1].op
    /\ invocations[2].request = invocations[1].request

(* The fields each method names for its query string. *)
DeclaredQuery(op) ==
    CASE op = "listStacks" -> {"orgID", "name", "stackID"}
      [] op \in {"deleteStack", "exportStack"} -> {"orgID"}
      [] OTHER -> {}

BodyOps == {"createPkg", "applyPkg", "createStack", "updateStack"}

(* C9: a call is given the content type application/json exactly when its  *)
(* method is createPkg, applyPkg, createStack or updateStack; the other    *)
(* four methods give none.                                                 *)
C9_ContentType ==
    \A k \in Calls :
        LET c == transport[k].call
        IN  /\ "contentType" \in DOMAIN c <=> Caller(k).op \in BodyOps
            /\ "contentType" \in DOMAIN c => c.contentType = "application/json"

C9_Witness ==
    /\ Len(transport) = 2
    /\ Caller(1).op = "updateStack"
    /\ transport[1].call.contentType = "application/json"
    /\ Caller(2).op = "listStacks"
    /\ "contentType" \notin DOMAIN transport[2].call

(* C10: while invocations remain, every method can be invoked whether or   *)
(* not earlier calls are pending, and its call is with the transport at    *)
(* once; every pending call can settle whatever the state of the others;   *)
(* each result is the outcome of its own call.                             *)
C10_IndependentDispatch ==
    /\ Len(invocations) < MaxCalls =>
           /\ ENABLED CallCreatePkg
           /\ ENABLED CallApplyPkg
           /\ ENABLED CallListStacks
           /\ ENABLED CallCreateStack
           /\ ENABLED CallReadStack
           /\ ENABLED CallUpdateStack
           /\ ENABLED CallDeleteStack
           /\ ENABLED CallExportStack
    /\ \A i \in 1..Len(invocations) : \E k \in Calls : transport[k].from = i
    /\ \A k \in Calls :
           transport[k].promise = Pending =>
               /\ ENABLED Settle(k, Fulfilled("v1"))
               /\ ENABLED Settle(k, Rejected("status404"))
    /\ \A k \in Calls, j \in Calls :
           /\ Caller(k).result = transport[k].promise
           /\ (transport[j].from # transport[k].from
                 /\ transport[k].promise = Pending
                    => Caller(k).result = Pending)

(* the second call completed while the first, issued earlier, is pending *)
C10_Witness ==
    /\ Len(transport) = 2
    /\ transport[1].promise = Pending
    /\ invocations[1].result = Pending
    /\ transport[2].promise = Rejected("status404")
    /\ invocations[2].result = Rejected("status404")

====
